---- MODULE Spec2Model ----
(***************************************************************************)
(* A model of dictator.py: the generative schema types (classes derived    *)
(* by named/using/expect/apply/of), the instances produced by invoking a   *)
(* type on raw data (deserialize, apply, validate), with_value,            *)
(* without_value and get_errors.                                           *)
(*                                                                         *)
(* Python values are tagged records.  A unicode string is a sequence of    *)
(* one-character strings, so that strip(), int() and iteration over a      *)
(* string are computed and not assumed.  Date and Datetime, which differ   *)
(* from Integer only in the parse (strptime), are left out.                *)
(***************************************************************************)
EXTENDS Integers, Sequences, FiniteSets, TLC

VARIABLES heap, made, call, inst, report

vars == <<heap, made, call, inst, report>>

(***************************************************************************)
(* Bounds of the model.                                                    *)
(***************************************************************************)
\* number of types derived by combinator calls in one run of Spec
MaxTypes == 2
\* length of a raw top-level string
MaxStrLen == 2
\* length of a raw list
MaxLen == 2

(***************************************************************************)
(* Python values.                                                          *)
(***************************************************************************)
None == [t |-> "none"]
PyInt(i) == [t |-> "int", i |-> i]
PyBool(b) == [t |-> "bool", b |-> b]
PyStr(s) == [t |-> "str", s |-> s]
PyList(l) == [t |-> "list", items |-> l]
PyTuple(l) == [t |-> "tuple", items |-> l]
PyDict(d) == [t |-> "dict", items |-> d]

\* the three values of Base.valid
VTrue == "True"
VFalse == "False"
VNone == "None"

\* Base.name of an unnamed type; names are strings otherwise
NoName == "None"

EmptyDict == <<>>

\* d with every key of kv set (dict.update / setattr in a loop)
Update(d, kv) ==
  [a \in DOMAIN d \cup DOMAIN kv |-> IF a \in DOMAIN kv THEN kv[a] ELSE d[a]]

(***************************************************************************)
(* Validators and transforms a schema can be configured with.              *)
(***************************************************************************)
one_of(values) == [f |-> "one_of", values |-> values]

(***************************************************************************)
(* The classes of the module, as the heap holds them after import.  A      *)
(* class is its __name__, its single base (0: object) and its __dict__.    *)
(***************************************************************************)
BaseId == 1
ScalarId == 2
BooleanId == 3
StringId == 4
IntegerId == 5
ContainerId == 6
SequenceId == 7
SimpleMappingId == 8
DeclaredMappingId == 9
MappingId == 10

Builtins ==
  << [name |-> "Base", base |-> 0,
      dict |-> [__expect__ |-> <<>>, name |-> NoName, state |-> None,
                valid |-> VNone, errors |-> <<>>]],
     [name |-> "Scalar", base |-> BaseId,
      dict |-> [__apply__ |-> <<>>, optional |-> FALSE]],
     [name |-> "Boolean", base |-> ScalarId, dict |-> EmptyDict],
     [name |-> "String", base |-> ScalarId, dict |-> [__apply__ |-> <<"strip">>]],
     [name |-> "Integer", base |-> ScalarId, dict |-> EmptyDict],
     [name |-> "Container", base |-> BaseId, dict |-> EmptyDict],
     [name |-> "Sequence", base |-> ContainerId,
      dict |-> [__value_type__ |-> StringId, state |-> PyTuple(<<>>)]],
     [name |-> "SimpleMapping", base |-> ContainerId,
      dict |-> [__value_type__ |-> StringId, state |-> PyDict(EmptyDict)]],
     [name |-> "DeclaredMapping", base |-> ContainerId,
      dict |-> [__value_types__ |-> <<>>, state |-> PyDict(EmptyDict),
                missing |-> FALSE, unknown |-> FALSE]],
     [name |-> "Mapping", base |-> ContainerId, dict |-> EmptyDict] >>

AttrNames ==
  {"name", "state", "valid", "errors", "__expect__", "__apply__", "optional",
   "__value_type__", "__value_types__", "missing", "unknown", "__subclassed__"}

\* hasattr(cls, a): a lookup along the bases
RECURSIVE HasAttr(_, _, _)
HasAttr(h, c, a) ==
  IF c = 0 THEN FALSE
  ELSE IF a \in DOMAIN h[c].dict THEN TRUE
  ELSE HasAttr(h, h[c].base, a)

\* getattr(cls, a)
RECURSIVE GetAttr(_, _, _)
GetAttr(h, c, a) ==
  IF a \in DOMAIN h[c].dict THEN h[c].dict[a] ELSE GetAttr(h, h[c].base, a)

\* issubclass(c, b)
RECURSIVE IsSubclass(_, _, _)
IsSubclass(h, c, b) ==
  IF c = 0 THEN FALSE
  ELSE IF c = b THEN TRUE
  ELSE IsSubclass(h, h[c].base, b)

\* every attribute a class resolves, with its value
Attrs(h, c) == [a \in {x \in AttrNames : HasAttr(h, c, x)} |-> GetAttr(h, c, a)]

(***************************************************************************)
(* _generative: the method runs on a subclass of cls (first derivation)    *)
(* or on a copy of cls (later ones), and that class is returned.  The      *)
(* result is the heap with the new class appended; its id is Len(h) + 1.   *)
(***************************************************************************)
\* a wrapper that runs the method on cls itself and returns a copy of it
GenerativeInPlace(h, cls, kv) ==
  LET m == [h EXCEPT ![cls].dict = Update(@, kv)]
  IN  Append(m, [name |-> m[cls].name, base |-> m[cls].base, dict |-> m[cls].dict])

Generative(h, cls, kv) ==
  LET new == IF ~HasAttr(h, cls, "__subclassed__")
             THEN [name |-> h[cls].name, base |-> cls,
                   dict |-> [__subclassed__ |-> TRUE]]
             ELSE [name |-> h[cls].name, base |-> h[cls].base,
                   dict |-> h[cls].dict]
  IN  Append(h, [new EXCEPT !.dict = Update(@, kv)])

\* the settings each combinator gives to the class it runs on
named(name) == [name |-> name]
using(options) == options
expect(validators) == [__expect__ |-> validators]
apply(functions) == [__apply__ |-> functions]
SequenceOf(value_type) == [__value_type__ |-> value_type]
SimpleMappingOf(value_type) == [__value_type__ |-> value_type]
DeclaredMappingOf(value_types) == [__value_types__ |-> value_types]

\* bool(name) is false for None and for the empty string
NameIsFalsy(n) == n = NoName \/ n = ""

\* Mapping.of: the class the factory derives from, and the setting
MappingOfOrigin(h, value_types) ==
  IF Len(value_types) = 1 /\ NameIsFalsy(GetAttr(h, value_types[1], "name"))
  THEN SimpleMappingId ELSE DeclaredMappingId

MappingOf(h, value_types) ==
  IF Len(value_types) = 1 /\ NameIsFalsy(GetAttr(h, value_types[1], "name"))
  THEN SimpleMappingOf(value_types[1])
  ELSE DeclaredMappingOf(value_types)

(***************************************************************************)
(* unicode methods and conversions the scalar types use.                   *)
(***************************************************************************)
Whitespace == {" ", "\t", "\n", "\r"}

RECURSIVE lstrip(_)
lstrip(s) == IF s # <<>> /\ Head(s) \in Whitespace THEN lstrip(Tail(s)) ELSE s

RECURSIVE rstrip(_)
rstrip(s) ==
  IF s # <<>> /\ s[Len(s)] \in Whitespace
  THEN rstrip(SubSeq(s, 1, Len(s) - 1)) ELSE s

\* unicode.strip() / string.strip
strip(s) == rstrip(lstrip(s))

Digits == {"0", "1", "2", "3", "4", "5", "6", "7", "8", "9"}

DigitValue(c) ==
  CASE c = "0" -> 0 [] c = "1" -> 1 [] c = "2" -> 2 [] c = "3" -> 3
    [] c = "4" -> 4 [] c = "5" -> 5 [] c = "6" -> 6 [] c = "7" -> 7
    [] c = "8" -> 8 [] c = "9" -> 9

RECURSIVE DigitsValue(_)
DigitsValue(d) ==
  IF d = <<>> THEN 0
  ELSE 10 * DigitsValue(SubSeq(d, 1, Len(d) - 1)) + DigitValue(d[Len(d)])

\* int(data): surrounding whitespace, an optional sign, decimal digits
IntBody(s) == LET b == strip(s)
              IN  IF b # <<>> /\ Head(b) \in {"+", "-"} THEN Tail(b) ELSE b

\* int(data) does not raise ValueError
IntParses(s) ==
  /\ IntBody(s) # <<>>
  /\ \A i \in DOMAIN IntBody(s) : IntBody(s)[i] \in Digits

IntValue(s) ==
  IF strip(s)[1] = "-" THEN 0 - DigitsValue(IntBody(s)) ELSE DigitsValue(IntBody(s))

TrueTokens ==
  {<<"1">>, <<"t", "r", "u", "e">>, <<"T", "r", "u", "e">>, <<"t">>, <<"o", "n">>}
FalseTokens ==
  {<<"0">>, <<"f", "a", "l", "s", "e">>, <<"F", "a", "l", "s", "e">>, <<"f">>,
   <<"o", "f", "f">>}

\* isinstance(data, unicode)
IsUnicode(data) == data.t = "str"
\* isinstance(data, collections.Sequence): list and tuple are sequences,
\* and Python 2 registers basestring as one too
IsSequence(data) == data.t \in {"list", "tuple", "str"}
\* isinstance(data, collections.Mapping)
IsMapping(data) == data.t = "dict"

\* what iterating over a sequence yields: the characters of a string
Elements(data) ==
  IF data.t = "str" THEN [i \in 1..Len(data.s) |-> PyStr(<<data.s[i]>>)]
  ELSE data.items

(***************************************************************************)
(* Schema instances: the class and the three instance attributes, which    *)
(* read the class's own until they are assigned.                           *)
(***************************************************************************)
NewObject(h, c) ==
  [cls |-> c, state |-> GetAttr(h, c, "state"), valid |-> GetAttr(h, c, "valid"),
   errors |-> GetAttr(h, c, "errors")]

\* the class whose methods an instance runs (type() keeps __name__)
Kind(h, self) == h[self.cls].name

IsScalar(h, c) == IsSubclass(h, c, ScalarId)
IsContainer(h, c) == IsSubclass(h, c, ContainerId)

note_error(self, error) ==
  [self EXCEPT !.errors = Append(@, error), !.valid = VFalse]

RECURSIVE NoteErrors(_, _)
NoteErrors(self, errors) ==
  IF errors = <<>> THEN self
  ELSE NoteErrors(note_error(self, Head(errors)), Tail(errors))

without_value(h, c, errors) == NoteErrors(NewObject(h, c), errors)

RECURSIVE Export(_, _)
Export(h, self) ==
  CASE Kind(h, self) \in {"Boolean", "String", "Integer"} -> self.state
    [] Kind(h, self) = "Sequence" ->
         PyList([i \in DOMAIN self.state.items |-> Export(h, self.state.items[i])])
    [] Kind(h, self) \in {"SimpleMapping", "DeclaredMapping"} ->
         PyDict([k \in DOMAIN self.state.items |-> Export(h, self.state.items[k])])

\* a user validator: rejects the values listed
none_of(values) == [f |-> "none_of", values |-> values]

RunValidator(h, self, validator) ==
  CASE validator.f = "one_of" ->
         IF Export(h, self) \notin validator.values
         THEN note_error(self, "Wrong choice") ELSE self
    [] validator.f = "none_of" ->
         IF Export(h, self) \in validator.values
         THEN note_error(self, "Rejected") ELSE self

RECURSIVE RunValidators(_, _, _)
RunValidators(h, self, validators) ==
  IF validators = <<>> THEN self
  ELSE RunValidators(h, RunValidator(h, self, Head(validators)), Tail(validators))

BaseValidate(h, self) ==
  IF Export(h, self) # None
  THEN RunValidators(h, [self EXCEPT !.valid = VTrue],
                     GetAttr(h, self.cls, "__expect__"))
  ELSE self

\* bool(item.valid)
Truthy(valid) == valid = VTrue

\* a Sequence.__validate__ that counts an unset child as passing
SequenceValidateLenient(h, self) ==
  LET s == BaseValidate(h, self)
  IN  [s EXCEPT !.valid =
         IF /\ \A i \in DOMAIN s.state.items : s.state.items[i].valid # VFalse
            /\ s.valid # VFalse
         THEN VTrue ELSE VFalse]

SequenceValidate(h, self) ==
  LET s == BaseValidate(h, self)
  IN  [s EXCEPT !.valid =
         IF /\ \A i \in DOMAIN s.state.items : Truthy(s.state.items[i].valid)
            /\ Truthy(s.valid)
         THEN VTrue ELSE VFalse]

SimpleMappingValidate(h, self) ==
  LET s == BaseValidate(h, self)
  IN  [s EXCEPT !.valid =
         IF /\ \A k \in DOMAIN s.state.items : Truthy(s.state.items[k].valid)
            /\ Truthy(s.valid)
         THEN VTrue ELSE VFalse]

\* a DeclaredMapping.__validate__ with the strict test of the other containers
DeclaredMappingValidateStrict(h, self) ==
  LET s == BaseValidate(h, self)
  IN  [s EXCEPT !.valid =
         IF /\ \A k \in DOMAIN s.state.items : Truthy(s.state.items[k].valid)
            /\ Truthy(s.valid)
         THEN VTrue ELSE VFalse]

DeclaredMappingValidate(h, self) ==
  LET s == BaseValidate(h, self)
  IN  [s EXCEPT !.valid =
         IF /\ \A k \in DOMAIN s.state.items : s.state.items[k].valid # VFalse
            /\ s.valid # VFalse
         THEN VTrue ELSE VFalse]

\* self.__validate__(), by the class of self
Validate(h, self) ==
  CASE Kind(h, self) = "Sequence" -> SequenceValidate(h, self)
    [] Kind(h, self) = "SimpleMapping" -> SimpleMappingValidate(h, self)
    [] Kind(h, self) = "DeclaredMapping" -> DeclaredMappingValidate(h, self)
    [] OTHER -> BaseValidate(h, self)

\* Base.__init__
BaseInit(h, self) == Validate(h, self)

\* the transforms: string.strip, inc of the tests, and a user's doubling
ApplyFunction(function, value) ==
  CASE function = "strip" -> PyStr(strip(value.s))
    [] function = "inc" -> PyInt(value.i + 1)
    [] function = "double" -> PyInt(value.i * 2)

RECURSIVE ApplyAll(_, _)
ApplyAll(functions, value) ==
  IF functions = <<>> THEN value
  ELSE ApplyAll(Tail(functions), ApplyFunction(Head(functions), value))

\* a Scalar.__init__ that validates before it applies the transforms
ScalarInitValidateFirst(h, self) ==
  LET s == BaseInit(h, self)
  IN  IF Export(h, s) # None
      THEN [s EXCEPT !.state = ApplyAll(GetAttr(h, s.cls, "__apply__"), Export(h, s))]
      ELSE s

ScalarInit(h, self) ==
  LET value == Export(h, self)
      s == IF value # None
           THEN [self EXCEPT !.state = ApplyAll(GetAttr(h, self.cls, "__apply__"), value)]
           ELSE self
  IN  BaseInit(h, s)

(***************************************************************************)
(* __deserialize__ of each type, under _accepts and _empty_check, and the  *)
(* call of a type on raw data: __new__ deserializes, __init__ validates.   *)
(***************************************************************************)
BooleanDeserialize(self, data) ==
  IF data.s \in TrueTokens THEN [self EXCEPT !.state = PyBool(TRUE)]
  ELSE IF data.s \in FalseTokens THEN [self EXCEPT !.state = PyBool(FALSE)]
  ELSE note_error(self, "Invalid value")

StringDeserialize(self, data) == [self EXCEPT !.state = data]

IntegerDeserialize(self, data) ==
  IF IntParses(data.s) THEN [self EXCEPT !.state = PyInt(IntValue(data.s))]
  ELSE note_error(self, "Invalid value")

\* the scalar __deserialize__ methods as decorated
ScalarDeserialize(h, self, data) ==
  IF ~IsUnicode(data) THEN note_error(self, "Invalid type")
  ELSE IF strip(data.s) = <<>>
       THEN IF GetAttr(h, self.cls, "optional") THEN self
            ELSE note_error(self, "Empty value")
       ELSE CASE Kind(h, self) = "Boolean" -> BooleanDeserialize(self, data)
              [] Kind(h, self) = "String" -> StringDeserialize(self, data)
              [] Kind(h, self) = "Integer" -> IntegerDeserialize(self, data)

\* the declared type that ends up under a key: the last one of that name
LastNamed(h, value_types, name) ==
  value_types[CHOOSE i \in DOMAIN value_types :
                /\ GetAttr(h, value_types[i], "name") = name
                /\ \A j \in DOMAIN value_types :
                     GetAttr(h, value_types[j], "name") = name => j <= i]

RECURSIVE Call(_, _, _)

\* a Sequence.__deserialize__ that stops at the first invalid element
SequenceDeserializeStops(h, self, data) ==
  IF ~IsSequence(data) THEN note_error(self, "Invalid type")
  ELSE LET all == [i \in DOMAIN Elements(data) |->
                     Call(h, GetAttr(h, self.cls, "__value_type__"), Elements(data)[i])]
           bad == {i \in DOMAIN all : all[i].valid = VFalse}
           n == IF bad = {} THEN Len(all)
                ELSE CHOOSE i \in bad : \A j \in bad : i <= j
       IN  [self EXCEPT !.state = PyTuple(SubSeq(all, 1, n))]

SequenceDeserialize(h, self, data) ==
  IF ~IsSequence(data) THEN note_error(self, "Invalid type")
  ELSE [self EXCEPT !.state =
          PyTuple([i \in DOMAIN Elements(data) |->
                     Call(h, GetAttr(h, self.cls, "__value_type__"),
                          Elements(data)[i])])]

SimpleMappingDeserialize(h, self, data) ==
  IF ~IsMapping(data) THEN note_error(self, "Invalid type")
  ELSE [self EXCEPT !.state =
          PyDict([k \in DOMAIN data.items |->
                    Call(h, GetAttr(h, self.cls, "__value_type__"), data.items[k])])]

\* a DeclaredMapping.__deserialize__ that records 'Missing keys' per key
DeclaredMappingDeserializePerKey(h, self, data) ==
  IF ~IsMapping(data) THEN note_error(self, "Invalid type")
  ELSE
    LET value_types == GetAttr(h, self.cls, "__value_types__")
        missing == GetAttr(h, self.cls, "missing")
        defined_keys == {GetAttr(h, value_types[i], "name") : i \in DOMAIN value_types}
        provided_keys == DOMAIN data.items
        RECURSIVE Note(_, _)
        Note(s, n) == IF n = 0 THEN s ELSE Note(note_error(s, "Missing keys"), n - 1)
        s1 == IF ~missing
              THEN Note(self, Cardinality(defined_keys \ provided_keys)) ELSE self
        s2 == IF provided_keys \ defined_keys # {} /\ ~GetAttr(h, self.cls, "unknown")
              THEN note_error(s1, "Unknown keys") ELSE s1
    IN  [s2 EXCEPT !.state =
           PyDict([k \in defined_keys |->
                     IF k \notin provided_keys
                     THEN without_value(h, LastNamed(h, value_types, k),
                                        IF missing THEN <<>> ELSE <<"Missing value">>)
                     ELSE Call(h, LastNamed(h, value_types, k), data.items[k])])]

DeclaredMappingDeserialize(h, self, data) ==
  IF ~IsMapping(data) THEN note_error(self, "Invalid type")
  ELSE
    LET value_types == GetAttr(h, self.cls, "__value_types__")
        missing == GetAttr(h, self.cls, "missing")
        defined_keys == {GetAttr(h, value_types[i], "name") : i \in DOMAIN value_types}
        provided_keys == DOMAIN data.items
        missing_keys == defined_keys \ provided_keys
        unknown_keys == provided_keys \ defined_keys
        s1 == IF missing_keys # {} /\ ~missing
              THEN note_error(self, "Missing keys") ELSE self
        s2 == IF unknown_keys # {} /\ ~GetAttr(h, self.cls, "unknown")
              THEN note_error(s1, "Unknown keys") ELSE s1
    IN  [s2 EXCEPT !.state =
           PyDict([k \in defined_keys |->
                     IF k \notin provided_keys
                     THEN without_value(h, LastNamed(h, value_types, k),
                                        IF missing THEN <<>> ELSE <<"Missing value">>)
                     ELSE Call(h, LastNamed(h, value_types, k), data.items[k])])]

\* self.__deserialize__(data), by the class of self
Deserialize(h, self, data) ==
  CASE Kind(h, self) = "Sequence" -> SequenceDeserialize(h, self, data)
    [] Kind(h, self) = "SimpleMapping" -> SimpleMappingDeserialize(h, self, data)
    [] Kind(h, self) = "DeclaredMapping" -> DeclaredMappingDeserialize(h, self, data)
    [] OTHER -> ScalarDeserialize(h, self, data)

\* cls(data)
Call(h, c, data) ==
  LET self == Deserialize(h, NewObject(h, c), data)
  IN  IF IsScalar(h, c) THEN ScalarInit(h, self) ELSE BaseInit(h, self)

(***************************************************************************)
(* with_value: __import__ of each type.                                    *)
(***************************************************************************)
RECURSIVE with_value(_, _, _)
with_value(h, c, value) ==
  LET self == NewObject(h, c)
  IN  CASE Kind(h, self) = "Sequence" ->
             [self EXCEPT !.state =
                PyTuple([i \in DOMAIN value.items |->
                           with_value(h, GetAttr(h, c, "__value_type__"),
                                      value.items[i])])]
        [] Kind(h, self) = "SimpleMapping" ->
             [self EXCEPT !.state =
                PyDict([k \in DOMAIN value.items |->
                          with_value(h, GetAttr(h, c, "__value_type__"),
                                     value.items[k])])]
        [] Kind(h, self) = "DeclaredMapping" ->
             LET value_types == GetAttr(h, c, "__value_types__")
                 names == {GetAttr(h, value_types[i], "name") : i \in DOMAIN value_types}
             IN  [self EXCEPT !.state =
                    PyDict([k \in names |->
                              IF k \notin DOMAIN value.items \/ value.items[k] = None
                              THEN without_value(h, LastNamed(h, value_types, k), <<>>)
                              ELSE with_value(h, LastNamed(h, value_types, k),
                                              value.items[k])])]
        [] OTHER -> [self EXCEPT !.state = value]

(***************************************************************************)
(* get_errors.  A call that raises yields Raised(exception).               *)
(***************************************************************************)
Raised(exception) == [raised |-> exception]
IsRaised(r) == "raised" \in DOMAIN r

\* zip(*d.iteritems()): the keys and the values, or nothing for an empty d
ZipItems(d) == IF DOMAIN d = {} THEN <<>> ELSE <<DOMAIN d, d>>

RECURSIVE get_errors(_, _)
get_errors(h, schema) ==
  IF IsContainer(h, schema.cls)
  THEN IF schema.state.t = "tuple"
       THEN LET items == [i \in DOMAIN schema.state.items |->
                            get_errors(h, schema.state.items[i])]
            IN  IF \E i \in DOMAIN items : IsRaised(items[i])
                THEN items[CHOOSE i \in DOMAIN items :
                             /\ IsRaised(items[i])
                             /\ \A j \in DOMAIN items : IsRaised(items[j]) => i <= j]
                ELSE [errors |-> schema.errors, items |-> PyList(items)]
       ELSE IF schema.state.t = "dict"
       THEN LET zipped == ZipItems(schema.state.items)
            IN  IF Len(zipped) # 2 THEN Raised("ValueError")
                ELSE LET keys == zipped[1]
                         values == [k \in keys |-> get_errors(h, zipped[2][k])]
                     IN  IF \E k \in keys : IsRaised(values[k])
                         THEN values[CHOOSE k \in keys : IsRaised(values[k])]
                         ELSE [errors |-> schema.errors, items |-> PyDict(values)]
       ELSE Raised("TypeError")
  ELSE [errors |-> schema.errors]

(***************************************************************************)
(* What the combinator calls of a run are given.                           *)
(***************************************************************************)
Names == {"a", "b"}
OptionSets == {[optional |-> TRUE, missing |-> TRUE]}
ValidatorTuples == {<<one_of({PyStr(<<"1">>)}), none_of({PyStr(<<"x">>)})>>}
FunctionTuples == {<<"inc", "double">>}

\* made[c]: the call that made class c (origin 0: defined by the module),
\* and what c resolved when it was made
Made(h, origin, kv, c) == [origin |-> origin, kv |-> kv, snap |-> Attrs(h, c)]

Derive(origin, kv) ==
  /\ heap' = Generative(heap, origin, kv)
  /\ made' = Append(made, Made(heap', origin, kv, Len(heap')))
  /\ UNCHANGED <<inst, report>>

\* the run may derive another type
MayDerive == Len(heap) < Len(Builtins) + MaxTypes

\* the types the combinators are called on: the concrete types of the
\* module and every type derived so far
Receivers ==
  {StringId, IntegerId, SequenceId, DeclaredMappingId, MappingId}
    \cup {c \in DOMAIN heap : c > Len(Builtins)}

\* the types given to of()
ValueTypes == {IntegerId} \cup {c \in DOMAIN heap : c > Len(Builtins)}

Named ==
  /\ MayDerive
  /\ \E c \in Receivers, n \in Names :
       /\ Derive(c, named(n))
       /\ call' = [op |-> "named", cls |-> c, data |-> None, via |-> "import"]

Using ==
  /\ MayDerive
  /\ \E c \in Receivers, o \in OptionSets :
       /\ Derive(c, using(o))
       /\ call' = [op |-> "using", cls |-> c, data |-> None, via |-> "import"]

Expect ==
  /\ MayDerive
  /\ \E c \in Receivers, v \in ValidatorTuples :
       /\ Derive(c, expect(v))
       /\ call' = [op |-> "expect", cls |-> c, data |-> None, via |-> "import"]

Apply ==
  /\ MayDerive
  /\ \E c \in Receivers, f \in FunctionTuples :
       /\ IsSubclass(heap, c, ScalarId)
       /\ Derive(c, apply(f))
       /\ call' = [op |-> "apply", cls |-> c, data |-> None, via |-> "import"]

\* Sequence.of, SimpleMapping.of, DeclaredMapping.of and the factory
\* Mapping.of, by the class the call is made on
Of ==
  /\ MayDerive
  /\ \E c \in Receivers, vt \in ValueTypes :
       /\ \/ /\ IsSubclass(heap, c, SequenceId)
             /\ Derive(c, SequenceOf(vt))
          \/ /\ IsSubclass(heap, c, SimpleMappingId)
             /\ Derive(c, SimpleMappingOf(vt))
          \/ /\ IsSubclass(heap, c, DeclaredMappingId)
             /\ Derive(c, DeclaredMappingOf(<<vt>>))
          \/ /\ IsSubclass(heap, c, MappingId)
             /\ Derive(MappingOfOrigin(heap, <<vt>>), MappingOf(heap, <<vt>>))
       /\ call' = [op |-> "of", cls |-> c, data |-> None, via |-> "import"]

Init ==
  /\ heap = Builtins
  /\ made = [c \in DOMAIN Builtins |-> Made(Builtins, 0, EmptyDict, c)]
  /\ call = [op |-> "import", cls |-> 0, data |-> None, via |-> "import"]
  /\ inst = None
  /\ report = None

Next == Named \/ Using \/ Expect \/ Apply \/ Of

Spec == Init /\ [][Next]_vars

(***************************************************************************)
(* The schema types the pipeline is run on: the heap after a script of     *)
(* combinator calls in the manner of the test's Schema.                    *)
(***************************************************************************)
RECURSIVE Build(_, _, _)
Build(h, m, script) ==
  IF script = <<>> THEN [heap |-> h, made |-> m]
  ELSE LET h2 == Generative(h, Head(script).origin, Head(script).kv)
       IN  Build(h2,
                 Append(m, Made(h2, Head(script).origin, Head(script).kv, Len(h2))),
                 Tail(script))

OptString == Len(Builtins) + 1
SeqOptString == OptString + 1
IntA == SeqOptString + 1
IntAInc == IntA + 1
IntAChecked == IntAInc + 1
StrB == IntAChecked + 1
StrBOpt == StrB + 1
StrBChecked == StrBOpt + 1
Declared == StrBChecked + 1
DeclaredLax == Declared + 1
MapOfInt == DeclaredLax + 1
SeqB == MapOfInt + 1
SeqBOfMaps == SeqB + 1
DeclaredNested == SeqBOfMaps + 1
SeqOfInt == DeclaredNested + 1
SeqNonEmpty == SeqOfInt + 1
MapOfOptString == SeqNonEmpty + 1

Script ==
  << [origin |-> StringId, kv |-> using([optional |-> TRUE])],
     [origin |-> SequenceId, kv |-> SequenceOf(OptString)],
     [origin |-> IntegerId, kv |-> named("a")],
     [origin |-> IntA, kv |-> apply(<<"inc", "double">>)],
     [origin |-> IntAInc,
      kv |-> expect(<<one_of({PyInt(4)}), one_of({PyInt(4), PyInt(6)})>>)],
     [origin |-> StringId, kv |-> named("b")],
     [origin |-> StrB, kv |-> using([optional |-> TRUE])],
     [origin |-> StrBOpt,
      kv |-> expect(<<one_of({PyStr(<<"1">>), PyStr(<<"x">>)}),
                      none_of({PyStr(<<"x">>), PyStr(<<"2">>)})>>)],
     [origin |-> DeclaredMappingId, kv |-> DeclaredMappingOf(<<IntAChecked, StrBOpt>>)],
     [origin |-> Declared, kv |-> using([missing |-> TRUE])],
     [origin |-> MappingOfOrigin(Builtins, <<IntegerId>>),
      kv |-> MappingOf(Builtins, <<IntegerId>>)],
     [origin |-> SequenceId, kv |-> named("b")],
     [origin |-> SeqB, kv |-> SequenceOf(MapOfInt)],
     [origin |-> DeclaredMappingId, kv |-> DeclaredMappingOf(<<IntA, SeqBOfMaps>>)],
     [origin |-> SequenceId, kv |-> SequenceOf(IntegerId)],
     [origin |-> SeqOfInt, kv |-> expect(<<none_of({PyList(<<>>)})>>)],
     [origin |-> SimpleMappingId, kv |-> SimpleMappingOf(OptString)] >>

Schemas ==
  Build(Builtins, [c \in DOMAIN Builtins |-> Made(Builtins, 0, EmptyDict, c)], Script)

\* the types that can be instantiated: the others do not implement
\* __deserialize__
Instantiable ==
  {BooleanId, StringId, IntegerId, SequenceId, SimpleMappingId, DeclaredMappingId}
    \cup (Len(Builtins) + 1 .. Len(Schemas.heap))

(***************************************************************************)
(* The raw data the types are called on.                                   *)
(***************************************************************************)
SeqsUpTo(S, n) == UNION {[1..k -> S] : k \in 0..n}

Chars == {" ", "-", "0", "1", "2", "x"}
RawStrings == {PyStr(s) : s \in SeqsUpTo(Chars, MaxStrLen)}

ElemStrings == {PyStr(<<>>), PyStr(<<"1">>), PyStr(<<"x">>)}
SmallMaps == {PyDict(EmptyDict), PyDict([a |-> PyStr(<<"1">>)]),
              PyDict([a |-> PyStr(<<"x">>)])}
RawLists == {PyList(l) : l \in SeqsUpTo(ElemStrings \cup {None} \cup SmallMaps, MaxLen)}

Keys == {"a", "b", "c"}
MapValues == ElemStrings \cup {PyList(<<PyDict([a |-> PyStr(<<"1">>)])>>)}
RawMaps == {PyDict(f) : f \in UNION {[K -> MapValues] : K \in SUBSET Keys}}

RawInputs == RawStrings \cup RawLists \cup RawMaps \cup {None, PyInt(7)}

(***************************************************************************)
(* The pipeline: a type and raw data are given; the type is called on the  *)
(* data, or an instance is made by with_value or without_value, and        *)
(* get_errors walks the instance.                                          *)
(***************************************************************************)
InitPipe ==
  /\ heap = Schemas.heap
  /\ made = Schemas.made
  /\ \E c \in Instantiable, data \in RawInputs :
       call = [op |-> "start", cls |-> c, data |-> data, via |-> "start"]
  /\ inst = None
  /\ report = None

Invoke ==
  /\ call.op = "start"
  /\ inst' = Call(heap, call.cls, call.data)
  /\ call' = [call EXCEPT !.op = "invoke"]
  /\ UNCHANGED <<heap, made, report>>

\* with_value on the value a call of the type exports
WithValue ==
  /\ call.op = "start"
  /\ LET value == Export(heap, Call(heap, call.cls, call.data))
     IN  /\ inst' = with_value(heap, call.cls, value)
         /\ call' = [call EXCEPT !.op = "with_value", !.data = value]
  /\ UNCHANGED <<heap, made, report>>

WithoutValue ==
  /\ call.op = "start"
  /\ \E errors \in {<<>>, <<"Missing value">>} :
       /\ inst' = without_value(heap, call.cls, errors)
       /\ call' = [call EXCEPT !.op = "without_value", !.data = PyTuple(errors)]
  /\ UNCHANGED <<heap, made, report>>

GetErrors ==
  /\ call.op \in {"invoke", "with_value", "without_value"}
  /\ report' = get_errors(heap, inst)
  /\ call' = [call EXCEPT !.op = "get_errors", !.via = call.op]
  /\ UNCHANGED <<heap, made, inst>>

NextPipe == Invoke \/ WithValue \/ WithoutValue \/ GetErrors

SpecPipe == InitPipe /\ [][NextPipe]_vars

(***************************************************************************)
(* C1: every type resolves exactly what it resolved when it was made, and  *)
(* a derived type resolves what the type it was derived from resolves,     *)
(* except for the attributes the call set (and the __subclassed__ mark).   *)
(***************************************************************************)
C1_Isolation ==
  \A c \in DOMAIN heap :
    /\ Attrs(heap, c) = made[c].snap
    /\ made[c].origin # 0 =>
         /\ made[c].origin < c
         /\ \A a \in AttrNames \ {"__subclassed__"} :
              IF a \in DOMAIN made[c].kv
              THEN HasAttr(heap, c, a) /\ GetAttr(heap, c, a) = made[c].kv[a]
              ELSE /\ HasAttr(heap, c, a) = HasAttr(heap, made[c].origin, a)
                   /\ HasAttr(heap, c, a) =>
                        GetAttr(heap, c, a) = GetAttr(heap, made[c].origin, a)

\* a type derived (by copy) from a derived type, whose setting its origin
\* does not have
C1_Witness ==
  \E c \in DOMAIN heap :
    /\ made[c].origin > Len(Builtins)
    /\ \E a \in DOMAIN made[c].kv :
         HasAttr(heap, made[c].origin, a) =>
           GetAttr(heap, c, a) # GetAttr(heap, made[c].origin, a)

(***************************************************************************)
(* What the claims are stated with.                                        *)
(***************************************************************************)
\* the state holds the instance a call of a type on raw data returned
Invoked == call.op = "invoke"

IsContainerKind(h, self) ==
  Kind(h, self) \in {"Sequence", "SimpleMapping", "DeclaredMapping"}

\* every instance of a tree
RECURSIVE Nodes(_, _)
Nodes(h, self) ==
  {self} \cup
    IF IsContainerKind(h, self)
    THEN UNION {Nodes(h, self.state.items[k]) : k \in DOMAIN self.state.items}
    ELSE {}

\* the instances of a tree that calls made: the root, and the children of
\* the sequences and simple mappings among them
RECURSIVE CalledNodes(_, _)
CalledNodes(h, self) ==
  {self} \cup
    IF Kind(h, self) \in {"Sequence", "SimpleMapping"}
    THEN UNION {CalledNodes(h, self.state.items[k]) : k \in DOMAIN self.state.items}
    ELSE {}

Children(self) == {self.state.items[k] : k \in DOMAIN self.state.items}

Count(seq, x) == Cardinality({i \in DOMAIN seq : seq[i] = x})

DefinedKeys(h, c) ==
  {GetAttr(h, GetAttr(h, c, "__value_types__")[i], "name") :
     i \in DOMAIN GetAttr(h, c, "__value_types__")}

(***************************************************************************)
(* C2: a Sequence or SimpleMapping a call made is invalid when a child is  *)
(* invalid, valid when every child is valid and it has no error of its     *)
(* own, and never valid with a child that is not valid (false or unset).   *)
(***************************************************************************)
C2_AndReduction ==
  Invoked =>
    \A n \in CalledNodes(heap, inst) :
      Kind(heap, n) \in {"Sequence", "SimpleMapping"} =>
        /\ (\E ch \in Children(n) : ch.valid = VFalse) => n.valid = VFalse
        /\ ((\A ch \in Children(n) : ch.valid = VTrue) /\ n.errors = <<>>)
             => n.valid = VTrue
        /\ (\E ch \in Children(n) : ch.valid # VTrue) => n.valid # VTrue

\* a sequence of two simple mappings: the first valid, with children; the
\* second invalid, which makes the sequence invalid
C2_Witness ==
  /\ Invoked
  /\ Kind(heap, inst) = "Sequence"
  /\ Len(inst.state.items) = 2
  /\ Kind(heap, inst.state.items[1]) = "SimpleMapping"
  /\ Children(inst.state.items[1]) # {}
  /\ inst.state.items[1].valid = VTrue
  /\ inst.state.items[2].valid = VFalse
  /\ inst.valid = VFalse

(***************************************************************************)
(* C3: a DeclaredMapping with missing = false, called on a mapping that    *)
(* lacks declared keys, has 'Missing keys' once among its errors and is    *)
(* invalid; the child of an absent key has the state of its class (none    *)
(* for a scalar), the errors ('Missing value',) and valid = false; the     *)
(* child of a present key is what a call of its type on the value returns. *)
(***************************************************************************)
C3_MissingKeys ==
  (/\ Invoked
   /\ Kind(heap, inst) = "DeclaredMapping"
   /\ ~GetAttr(heap, inst.cls, "missing")
   /\ IsMapping(call.data)
   /\ DefinedKeys(heap, inst.cls) \ DOMAIN call.data.items # {})
  =>
    /\ Count(inst.errors, "Missing keys") = 1
    /\ inst.valid = VFalse
    /\ DOMAIN inst.state.items = DefinedKeys(heap, inst.cls)
    /\ \A k \in DefinedKeys(heap, inst.cls) :
         LET ch == inst.state.items[k]
         IN  /\ GetAttr(heap, ch.cls, "name") = k
             /\ IF k \in DOMAIN call.data.items
                THEN ch = Call(heap, ch.cls, call.data.items[k])
                ELSE /\ ch.state = GetAttr(heap, ch.cls, "state")
                     /\ IsScalar(heap, ch.cls) => ch.state = None
                     /\ ch.errors = <<"Missing value">>
                     /\ ch.valid = VFalse

\* one declared key absent, the other present and run through the pipeline
C3_Witness ==
  /\ Invoked
  /\ Kind(heap, inst) = "DeclaredMapping"
  /\ ~GetAttr(heap, inst.cls, "missing")
  /\ IsMapping(call.data)
  /\ "a" \in DOMAIN call.data.items
  /\ "b" \in DefinedKeys(heap, inst.cls) \ DOMAIN call.data.items
  /\ inst.state.items["a"].valid = VTrue
  /\ inst.state.items["b"].errors = <<"Missing value">>
  /\ inst.errors = <<"Missing keys">>

(***************************************************************************)
(* C4: with missing = true, the child of an absent declared key has no     *)
(* error, the state of its class and valid unset, and the mapping has no   *)
(* 'Missing keys'; a DeclaredMapping is invalid only if a child is         *)
(* explicitly false or the mapping has an error of its own, so unset       *)
(* children (absent keys, blank optional scalars) leave it valid.          *)
(***************************************************************************)
C4_UnsetPasses ==
  (Invoked /\ Kind(heap, inst) = "DeclaredMapping") =>
    /\ (GetAttr(heap, inst.cls, "missing") /\ IsMapping(call.data)) =>
         /\ Count(inst.errors, "Missing keys") = 0
         /\ \A k \in DefinedKeys(heap, inst.cls) \ DOMAIN call.data.items :
              /\ inst.state.items[k].errors = <<>>
              /\ inst.state.items[k].state =
                   GetAttr(heap, inst.state.items[k].cls, "state")
              /\ inst.state.items[k].valid = VNone
    /\ inst.valid = VFalse =>
         \/ \E ch \in Children(inst) : ch.valid = VFalse
         \/ inst.errors # <<>>
    /\ ((\A ch \in Children(inst) : ch.valid # VFalse) /\ inst.errors = <<>>)
         => inst.valid = VTrue

\* a valid mapping with missing = true, every declared key absent
C4_Witness ==
  /\ Invoked
  /\ Kind(heap, inst) = "DeclaredMapping"
  /\ GetAttr(heap, inst.cls, "missing")
  /\ IsMapping(call.data)
  /\ Children(inst) # {}
  /\ \A ch \in Children(inst) : ch.valid = VNone
  /\ inst.valid = VTrue

(***************************************************************************)
(* C6: a scalar called on raw data holds the transforms applied in         *)
(* declaration order to the deserialized value, and the errors of the      *)
(* validators that reject the transformed value, in declaration order;     *)
(* when deserialization leaves no value it is as deserialization left it.  *)
(***************************************************************************)
\* the first n transforms applied to value, in declaration order
RECURSIVE Transformed(_, _, _)
Transformed(functions, value, n) ==
  IF n = 0 THEN value
  ELSE ApplyFunction(functions[n], Transformed(functions, value, n - 1))

Rejects(validator, value) ==
  \/ validator.f = "one_of" /\ value \notin validator.values
  \/ validator.f = "none_of" /\ value \in validator.values

Code(validator) == IF validator.f = "one_of" THEN "Wrong choice" ELSE "Rejected"

\* the codes of the validators that reject value, in declaration order
RECURSIVE Rejections(_, _)
Rejections(validators, value) ==
  IF validators = <<>> THEN <<>>
  ELSE (IF Rejects(Head(validators), value) THEN <<Code(Head(validators))>> ELSE <<>>)
         \o Rejections(Tail(validators), value)

C6_ScalarPipeline ==
  (Invoked /\ IsScalar(heap, inst.cls)) =>
    LET d == ScalarDeserialize(heap, NewObject(heap, inst.cls), call.data)
        functions == GetAttr(heap, inst.cls, "__apply__")
        value == Transformed(functions, d.state, Len(functions))
        errors == Rejections(GetAttr(heap, inst.cls, "__expect__"), value)
    IN  IF d.state = None
        THEN inst = d
        ELSE /\ inst.state = value
             /\ inst.errors = errors
             /\ inst.valid = IF errors = <<>> THEN VTrue ELSE VFalse

\* two transforms that do not commute, a first validator that rejects the
\* transformed value and a second that accepts it
C6_Witness ==
  /\ Invoked
  /\ IsScalar(heap, inst.cls)
  /\ GetAttr(heap, inst.cls, "__apply__") = <<"inc", "double">>
  /\ Len(GetAttr(heap, inst.cls, "__expect__")) = 2
  /\ call.data = PyStr(<<"2">>)
  /\ inst.state = PyInt(6)
  /\ inst.errors = <<"Wrong choice">>

(***************************************************************************)
(* C7: a Sequence called on a list of n elements holds n children in the   *)
(* order of the list, the i-th being what a call of the child type on the  *)
(* i-th element returns, and is invalid when one of them is invalid.       *)
(***************************************************************************)
C7_ElementsIsolated ==
  (Invoked /\ Kind(heap, inst) = "Sequence" /\ call.data.t \in {"list", "tuple"}) =>
    /\ Len(inst.state.items) = Len(call.data.items)
    /\ \A i \in DOMAIN call.data.items :
         inst.state.items[i] =
           Call(heap, GetAttr(heap, inst.cls, "__value_type__"), call.data.items[i])
    /\ (\E i \in DOMAIN inst.state.items : inst.state.items[i].valid = VFalse)
         => inst.valid = VFalse

\* an invalid element followed by a valid one
C7_Witness ==
  /\ Invoked
  /\ Kind(heap, inst) = "Sequence"
  /\ call.data = PyList(<<PyStr(<<"x">>), PyStr(<<"1">>)>>)
  /\ inst.state.items[1].errors = <<"Invalid value">>
  /\ inst.state.items[2].valid = VTrue
  /\ inst.state.items[2].state = PyInt(1)
  /\ inst.valid = VFalse

(***************************************************************************)
(* C5: get_errors returns a report for every instance: the errors of the   *)
(* node, and items that are a list for a Sequence, a mapping for a         *)
(* mapping and absent for a scalar.                                        *)
(***************************************************************************)
C5_GetErrorsReports ==
  call.op = "get_errors" =>
    /\ ~IsRaised(report)
    /\ report.errors = inst.errors
    /\ CASE Kind(heap, inst) = "Sequence" ->
              /\ "items" \in DOMAIN report
              /\ report.items.t = "list"
              /\ Len(report.items.items) = Len(inst.state.items)
         [] Kind(heap, inst) \in {"SimpleMapping", "DeclaredMapping"} ->
              /\ "items" \in DOMAIN report
              /\ report.items.t = "dict"
              /\ DOMAIN report.items.items = DOMAIN inst.state.items
         [] OTHER -> "items" \notin DOMAIN report

(***************************************************************************)
(* C8: after a call, every instance of the tree that has an error of its   *)
(* own has valid = false.                                                  *)
(***************************************************************************)
C8_ErrorsMeanInvalid ==
  Invoked => \A n \in Nodes(heap, inst) : n.errors # <<>> => n.valid = VFalse

(***************************************************************************)
(* C9: a Sequence called on a string, or on anything that is not a list,   *)
(* records 'Invalid type' and has no children.                             *)
(***************************************************************************)
C9_SequenceRejectsStrings ==
  (Invoked /\ Kind(heap, inst) = "Sequence" /\ call.data.t \notin {"list", "tuple"}) =>
    /\ Count(inst.errors, "Invalid type") = 1
    /\ inst.state.items = <<>>

(***************************************************************************)
(* C10: the report of an instance that a call left invalid holds an error  *)
(* code, on the node or on a descendant.                                   *)
(***************************************************************************)
RECURSIVE ReportHasError(_)
ReportHasError(r) ==
  \/ r.errors # <<>>
  \/ /\ "items" \in DOMAIN r
     /\ \E k \in DOMAIN r.items.items : ReportHasError(r.items.items[k])

C10_InvalidHasError ==
  (/\ call.op = "get_errors"
   /\ call.via = "invoke"
   /\ inst.valid = VFalse
   /\ ~IsRaised(report))
  => ReportHasError(report)

====
